---- MODULE Spec2Model ----
(***************************************************************************)
(* tbman: a supervisor of TensorBoard child processes (src/tbman.py).      *)
(*                                                                         *)
(* The model follows one host over several runs of the tbman process:      *)
(* construction of the _Manager (with the replay of the session file),     *)
(* the requests of the web routes, the SIGINT handler, process exit and a  *)
(* later restart on the same session file.  The operating system's side    *)
(* (child processes, temporary directories, listening ports, the session   *)
(* file) outlives a run; the _Manager's fields do not.                     *)
(*                                                                         *)
(* Requests are served one at a time and each route runs to completion.    *)
(* The SIGINT handler is modelled statement by statement, because Python   *)
(* runs a handler again, on top of the interrupted one, when the signal    *)
(* arrives a second time.                                                  *)
(*                                                                         *)
(* Spec, SpecRestart and SpecReentry serve the requests one at a time;     *)
(* SpecThreads serves them on threads.  SpecFindPort and SpecMakeLogdir    *)
(* take one call of _find_port and of _make_logdir by itself.              *)
(***************************************************************************)
EXTENDS Integers, Sequences, FiniteSets, Bags, TLC

VARIABLES
    _count,     \* _Manager._count
    _tbs,       \* _Manager._tbs: the dict, as the sequence of its items in insertion order
    phase,      \* "start" | "replay" | "serving" | "shutdown" | "exited"
    status,     \* the exit status of the process, once phase = "exited"
    run,        \* the number of this run of the process on the host
    todo,       \* _load: the items of the file not yet replayed
    sig,        \* the innermost running _handle_sigint frame (none: << >>)
    nsig,       \* the SIGINTs delivered in this run
    db,         \* the session file (db_path)
    dirs,       \* the temporary directories that exist on disk
    named,      \* how many of the names mkdtemp can return have been in use so far
    procs,      \* every child process spawned so far, by pid, with the _Instance it serves
    extern,     \* ports of the range on which an unrelated process listens (here: the low port)
    last,       \* observation: the last _Manager operation and its outcome
    rmFailed,   \* observation: directories whose rmtree failed (and was swallowed)
    skipped,    \* observation: configs of this run's replay that found no port
    saved,      \* observation: the run of the last save() (0: none) and the configs live at it
    fp,         \* one call of _find_port taken by itself: its arguments and what it did
    ld,         \* one call of _make_logdir taken by itself: its arguments and what it did
    thr         \* launch calls in flight on the threads of the web server

vars == << _count, _tbs, phase, status, run, todo, sig, nsig, db, dirs, named, procs, extern,
           last, rmFailed, skipped, saved, fp, ld, thr >>

\* the variables outside a run of tbman with its requests served one at a time
calls == << fp, ld, thr >>

\* the variables of such a run
host == << _count, _tbs, phase, status, run, todo, sig, nsig, db, dirs, named, procs, extern,
           last, rmFailed, skipped, saved >>

(***************************************************************************)
(* Bounds of the model.                                                    *)
(***************************************************************************)
\* children spawned over the whole behaviour
MaxProcs == 2
\* runs of the process
MaxRuns == 2
\* names tempfile.mkdtemp can return
NumDirs == 2
\* width of the port range [port_lo, port_hi)
NumPorts == 2
\* probes of one _find_port call (the code's default is 32)
max_attempts == 2
\* SIGINTs delivered in one run
MaxSigints == 2
\* source paths of the _Config given to one _make_logdir call
MaxPaths == 3
\* requests the web server runs at the same time
MaxThreads == 2

\* --low-port
port_lo == 8000
\* --high-port
port_hi == port_lo + NumPorts

Ports == port_lo .. (port_hi - 1)
TempNames == 1 .. NumDirs

(***************************************************************************)
(* _Config is a NamedTuple: the tuple <<paths, title>>.                    *)
(***************************************************************************)
cfgA == << << "/a/models/run", "/b/models/run" >>, "A" >>
cfgB == << << "/c/exp" >>, "B" >>
Configs == { cfgA, cfgB }

\* (variant: the title is not written)
_asdict_notitle(cfg) == [ paths |-> cfg[1], title |-> "" ]

\* cfg._asdict(): the JSON object json.dump writes for a _Config
_asdict(cfg) == [ paths |-> cfg[1], title |-> cfg[2] ]

\* _Config(**item) raises TypeError unless the keys are exactly paths and title
ValidItem(item) == DOMAIN item = { "paths", "title" }

\* _Config(**item)
_Config(item) == << item.paths, item.title >>

\* the session files a first run may find
absentFile == [ kind |-> "absent", data |-> << >> ]
garbageFile == [ kind |-> "garbage", data |-> << >> ]
emptyObjectFile == [ kind |-> "object", data |-> << >> ]
arrayFile(items) == [ kind |-> "array", data |-> items ]
badItem == [ paths |-> << "/c/exp" >> ]
InitialFiles ==
    { absentFile, garbageFile, emptyObjectFile,
      arrayFile(<< _asdict(cfgB) >>),
      arrayFile(<< _asdict(cfgA), _asdict(cfgB) >>),
      arrayFile(<< _asdict(cfgB), badItem >>) }

(***************************************************************************)
(* Helpers on the dict _tbs and on sequences.                              *)
(***************************************************************************)
keys(tbs) == [ i \in 1 .. Len(tbs) |-> tbs[i].key ]
KeySet(tbs) == { tbs[i].key : i \in 1 .. Len(tbs) }
Lookup(tbs, k) == (CHOOSE i \in 1 .. Len(tbs) : tbs[i].key = k)
Cfgs(tbs) == [ i \in 1 .. Len(tbs) |-> tbs[i].tb.instance.cfg ]

\* d[k] = v on a dict: an existing key keeps its place
DictSet(tbs, k, v) ==
    IF k \in KeySet(tbs)
    THEN [ i \in 1 .. Len(tbs) |-> IF tbs[i].key = k THEN [ key |-> k, tb |-> v ] ELSE tbs[i] ]
    ELSE Append(tbs, [ key |-> k, tb |-> v ])

RECURSIVE BagOfSeq(_)
BagOfSeq(s) == IF s = << >> THEN EmptyBag ELSE SetToBag({ Head(s) }) (+) BagOfSeq(Tail(s))

\* ports on which a connect to localhost succeeds
Occupied == extern \cup { procs[p].port : p \in { q \in 1 .. Len(procs) : procs[q].st = "listening" } }

(***************************************************************************)
(* _make_logdir: mkdtemp returns the name of a directory that did not      *)
(* exist, and creates it.  The name is one that was in use before and is   *)
(* free again, or a name never used; the names never used are              *)
(* interchangeable, and the least of them stands for all.                  *)
(***************************************************************************)
\* (variant: the name of an existing directory may be returned)
FreshNames_any == { d \in TempNames : d <= named + 1 }

FreshNames == { d \in TempNames : d \notin dirs /\ d <= named + 1 }

\* the names in use once d was made
Named(d) == IF d > named THEN d ELSE named

(***************************************************************************)
(* _find_port: picks is the sequence of random.randint draws.              *)
(***************************************************************************)
RECURSIVE _find_port(_, _)
_find_port(picks, occ) ==
    IF picks = << >> THEN -1
    ELSE IF Head(picks) \notin occ THEN Head(picks)
    ELSE _find_port(Tail(picks), occ)

Draws == [ 1 .. max_attempts -> Ports ]

(***************************************************************************)
(* _Manager.launch.  d is the directory mkdtemp made, picks the draws of   *)
(* _find_port, spawn whether subprocess.Popen could start the binary.      *)
(* The result holds the fields the call leaves behind.                     *)
(***************************************************************************)
\* (variant: the test of the port is lost)
no_port_never(port) == FALSE

\* if port < 0: _find_port found no port
no_port(port) == port < 0

\* (variant: the counter is not incremented)
next_count_same(count) == count

\* self._count += 1
next_count(count) == count + 1

\* (variant: a Popen that could not start the binary returns all the same)
Popen_raises_never(spawn) == FALSE

\* subprocess.Popen(args) raises when the binary cannot be started
Popen_raises(spawn) == ~spawn

launch(cfg, d, picks, spawn) ==
    LET port == _find_port(picks, Occupied)
        pid == Len(procs) + 1
        instance == [ cfg |-> cfg, ident |-> _count, logdir |-> d, port |-> port ]
        \* what the host answered: no port (-1), a Popen that raised, or a child
        result == IF port = -1 THEN "no_port" ELSE IF ~spawn THEN "spawn_error" ELSE "ok"
    IN  IF no_port(port) \/ Popen_raises(spawn)
        THEN [ result |-> result, tbs |-> _tbs, count |-> _count, procs |-> procs,
               dirs |-> dirs \cup { d }, named |-> Named(d) ]
        ELSE [ result |-> result,
               tbs |-> DictSet(_tbs, _count, [ instance |-> instance, proc |-> pid ]),
               count |-> next_count(_count),
               procs |-> Append(procs, [ port |-> port, logdir |-> d, ident |-> _count,
                                         run |-> run, st |-> "starting", sigterm |-> FALSE ]),
               dirs |-> dirs \cup { d }, named |-> Named(d) ]

\* what one call of launch can leave behind, over what the host may answer
Launches(cfg) ==
    { launch(cfg, d, picks, spawn) : d \in FreshNames, picks \in Draws, spawn \in BOOLEAN }

\* (variant: the entries are written last to first)
save_reversed(tbs) ==
    arrayFile([ i \in 1 .. Len(tbs) |-> _asdict(tbs[Len(tbs) + 1 - i].tb.instance.cfg) ])

\* _Manager.save: the file json.dump leaves
save(tbs) == arrayFile([ i \in 1 .. Len(tbs) |-> _asdict(tbs[i].tb.instance.cfg) ])

(***************************************************************************)
(* _Manager.stop, statement by statement.                                  *)
(***************************************************************************)
\* self._tbs.pop(instance_id), the key being present
pop(tbs, id) == SelectSeq(tbs, LAMBDA e : e.key # id)

\* (variant: no signal is sent)
terminate_none(ps, pid) == ps

\* proc.terminate(): SIGTERM, unless the child is known to have exited
terminate(ps, pid) ==
    IF ps[pid].st = "exited" THEN ps ELSE [ ps EXCEPT ![pid].sigterm = TRUE ]

\* proc.wait() has returned: the child has exited
wait(ps, pid) == [ ps EXCEPT ![pid].st = "exited" ]

\* (variant: the tree is never deleted)
rmtree_skip(ds, d, ok) == ds

\* shutil.rmtree(logdir, ignore_errors=True): the tree is gone, or the error is ignored
rmtree(ds, d, ok) == IF ok THEN ds \ { d } ELSE ds

(***************************************************************************)
(* _Manager.stop as one call.  st holds the fields the call works on,      *)
(* fail the directories whose deletion fails.  A missing key raises        *)
(* KeyError out of the call.                                               *)
(***************************************************************************)
stop(st, id, fail) ==
    IF id \notin KeySet(st.tbs)
    THEN [ st EXCEPT !.result = "KeyError" ]
    ELSE LET tb == st.tbs[Lookup(st.tbs, id)].tb
             d == tb.instance.logdir
         IN  [ result |-> "ok",
               tbs |-> pop(st.tbs, id),
               procs |-> wait(terminate(st.procs, tb.proc), tb.proc),
               dirs |-> rmtree(st.dirs, d, d \notin fail),
               rmFailed |-> IF d \in fail THEN st.rmFailed \cup { d } ELSE st.rmFailed ]

\* _Manager.stop_all: the loop over the copied keys
RECURSIVE stop_each(_, _, _)
stop_each(ids, st, fail) ==
    IF ids = << >> \/ st.result # "ok" THEN st
    ELSE stop_each(Tail(ids), stop(st, Head(ids), fail), fail)

stop_all(st, fail) == stop_each(keys(st.tbs), st, fail)

Fields == [ result |-> "ok", tbs |-> _tbs, procs |-> procs, dirs |-> dirs, rmFailed |-> rmFailed ]
LiveDirs == { _tbs[i].tb.instance.logdir : i \in 1 .. Len(_tbs) }
Idents == 0 .. MaxProcs

Observe(op, result) == [ op |-> op, result |-> result ]

(***************************************************************************)
(* Initial state: the process of the first run has started, the _Manager   *)
(* is not constructed yet.                                                 *)
(***************************************************************************)
InitHost ==
    /\ _count = 0
    /\ _tbs = << >>
    /\ phase = "start"
    /\ status = 0
    /\ run = 1
    /\ todo = << >>
    /\ sig = << >>
    /\ nsig = 0
    /\ db \in InitialFiles
    /\ dirs = { }
    /\ named = 0
    /\ procs = << >>
    /\ extern = { port_lo }
    /\ last = Observe("none", "none")
    /\ rmFailed = { }
    /\ skipped = << >>
    /\ saved = [ run |-> 0, live |-> << >> ]

Init ==
    /\ InitHost
    /\ fp = << >>
    /\ ld = << >>
    /\ thr = { }

(***************************************************************************)
(* _Manager.__init__ and the head of _load.                                *)
(***************************************************************************)
Construct ==
    /\ phase = "start"
    /\ _count' = 0
    /\ _tbs' = << >>
    /\ skipped' = << >>
    /\ IF db.kind = "absent"
       THEN /\ phase' = "serving" /\ status' = 0 /\ todo' = << >>
            /\ last' = Observe("load", "absent")
       ELSE IF db.kind = "garbage"
       THEN /\ phase' = "exited" /\ status' = 1 /\ todo' = << >>
            /\ last' = Observe("load", "JSONDecodeError")
       ELSE /\ phase' = "replay" /\ status' = 0 /\ todo' = db.data
            /\ last' = Observe("load", "parsed")
    /\ UNCHANGED << run, sig, nsig, db, dirs, named, procs, extern, rmFailed, saved >>
    /\ UNCHANGED calls

(***************************************************************************)
(* One turn of the loop of _load.                                          *)
(***************************************************************************)
ReplayItem ==
    /\ phase = "replay"
    /\ todo # << >>
    /\ Len(procs) < MaxProcs
    /\ IF ~ValidItem(Head(todo))
       THEN /\ phase' = "exited" /\ status' = 1
            /\ last' = Observe("load", "TypeError")
            /\ UNCHANGED << _count, _tbs, todo, dirs, named, procs, skipped >>
       ELSE \E r \in Launches(_Config(Head(todo))) :
              /\ _tbs' = r.tbs /\ _count' = r.count /\ procs' = r.procs /\ dirs' = r.dirs
              /\ named' = r.named
              /\ last' = Observe("launch", r.result)
              /\ skipped' = IF r.result = "no_port"
                            THEN Append(skipped, _Config(Head(todo))) ELSE skipped
              /\ IF r.result = "spawn_error"
                 THEN phase' = "exited" /\ status' = 1 /\ todo' = todo
                 ELSE phase' = phase /\ status' = status /\ todo' = Tail(todo)
    /\ UNCHANGED << run, sig, nsig, db, extern, rmFailed, saved >>
    /\ UNCHANGED calls

\* _load returns; __main__ installs the handler and starts the server
ReplayDone ==
    /\ phase = "replay"
    /\ todo = << >>
    /\ phase' = "serving"
    /\ last' = Observe("load", "done")
    /\ UNCHANGED << _count, _tbs, status, run, todo, sig, nsig, db, dirs, named, procs, extern,
                    rmFailed, skipped, saved >>
    /\ UNCHANGED calls

(***************************************************************************)
(* POST /: launch, then save.  An exception of launch (Popen) leaves the   *)
(* route before save.                                                      *)
(***************************************************************************)
index(cfg) ==
    /\ phase = "serving"
    /\ Len(procs) < MaxProcs
    /\ \E r \in Launches(cfg) :
         /\ _tbs' = r.tbs /\ _count' = r.count /\ procs' = r.procs /\ dirs' = r.dirs
         /\ named' = r.named
         /\ last' = Observe("launch", r.result)
         /\ IF r.result = "spawn_error"
            THEN UNCHANGED << db, saved >>
            ELSE db' = save(r.tbs) /\ saved' = [ run |-> run, live |-> Cfgs(r.tbs) ]
    /\ UNCHANGED << phase, status, run, todo, sig, nsig, extern, rmFailed, skipped >>
    /\ UNCHANGED calls

(***************************************************************************)
(* GET /stop/<id>: a KeyError of _Manager.stop leaves the route uncaught   *)
(* (the server answers 500 and keeps running).                             *)
(***************************************************************************)
route_stop(id) ==
    /\ phase = "serving"
    /\ \E fail \in SUBSET (LiveDirs \cap { d \in TempNames : id \in KeySet(_tbs)
                                           /\ _tbs[Lookup(_tbs, id)].tb.instance.logdir = d }) :
         LET r == stop(Fields, id, fail)
         IN  /\ _tbs' = r.tbs /\ procs' = r.procs /\ dirs' = r.dirs /\ rmFailed' = r.rmFailed
             /\ last' = Observe("stop", r.result)
    /\ UNCHANGED << _count, phase, status, run, todo, sig, nsig, db, named, extern, skipped,
                    saved >>
    /\ UNCHANGED calls

\* GET /cleanup
cleanup ==
    /\ phase = "serving"
    /\ \E fail \in SUBSET LiveDirs :
         LET r == stop_all(Fields, fail)
         IN  /\ _tbs' = r.tbs /\ procs' = r.procs /\ dirs' = r.dirs /\ rmFailed' = r.rmFailed
             /\ last' = Observe("stop_all", r.result)
    /\ UNCHANGED << _count, phase, status, run, todo, sig, nsig, db, named, extern, skipped,
                    saved >>
    /\ UNCHANGED calls

(***************************************************************************)
(* _handle_sigint.  The statement that follows pc in the handler.          *)
(***************************************************************************)
\* (variant: stop_all before save)
_handle_sigint_swapped(pc) ==
    CASE pc = "entry" -> "stop_all"
      [] pc = "stop_all" -> "save"
      [] pc = "save" -> "exit"

_handle_sigint(pc) ==
    CASE pc = "entry" -> "save"
      [] pc = "save" -> "stop_all"
      [] pc = "stop_all" -> "exit"

Top == sig[1]
SetTop(f) == << f >>

(***************************************************************************)
(* SIGINT is delivered: Python calls the handler on top of what was        *)
(* running.  A handler that was running is never resumed, because the new  *)
(* one ends in sys.exit, whose SystemExit unwinds every frame below; only  *)
(* the innermost frame is kept.  live, first and firstSaved are             *)
(* observations: the configs live at this delivery and at the first one   *)
(* of the run, and whether the first handler got past its save.            *)
(***************************************************************************)
Deliver ==
    /\ nsig < MaxSigints
    /\ nsig' = nsig + 1
    /\ phase' = "shutdown"
    /\ sig' = << [ pc |-> _handle_sigint("entry"), saved |-> FALSE,
                   live |-> Cfgs(_tbs),
                   first |-> IF sig = << >> THEN Cfgs(_tbs) ELSE Top.first,
                   firstSaved |-> IF sig = << >> THEN FALSE
                                  ELSE Top.firstSaved \/ (nsig = 1 /\ Top.saved),
                   snap |-> << >>, ids |-> << >>, cur |-> << >> ] >>
    /\ last' = Observe("sigint", "none")
    /\ UNCHANGED << _count, _tbs, status, run, todo, db, dirs, named, procs, extern,
                    rmFailed, skipped, saved >>
    /\ UNCHANGED calls

\* the first SIGINT of a run, while the server waits for requests
Sigint ==
    /\ phase = "serving"
    /\ Deliver

\* a further SIGINT, while a handler is running
SigintAgain ==
    /\ phase = "shutdown"
    /\ Deliver

\* manager.save()
SigSave ==
    /\ phase = "shutdown"
    /\ Top.pc = "save"
    /\ db' = save(_tbs)
    /\ saved' = [ run |-> run, live |-> Cfgs(_tbs) ]
    /\ sig' = SetTop([ Top EXCEPT !.pc = _handle_sigint("save"), !.saved = TRUE ])
    /\ last' = Observe("save", "ok")
    /\ UNCHANGED << _count, _tbs, phase, status, run, nsig, todo, dirs, named, procs, extern,
                    rmFailed, skipped >>
    /\ UNCHANGED calls

\* manager.stop_all(): instance_ids = list(self._tbs.keys())
SigSnapshot ==
    /\ phase = "shutdown"
    /\ Top.pc = "stop_all"
    /\ sig' = SetTop([ Top EXCEPT !.pc = "loop", !.ids = keys(_tbs), !.snap = _tbs ])
    /\ UNCHANGED << _count, _tbs, phase, status, run, nsig, todo, db, dirs, named, procs, extern, last,
                    rmFailed, skipped, saved >>
    /\ UNCHANGED calls

\* the loop of stop_all: its end, or the pop of the next stop
SigLoop ==
    /\ phase = "shutdown"
    /\ Top.pc = "loop"
    /\ IF Top.ids = << >>
       THEN /\ sig' = SetTop([ Top EXCEPT !.pc = _handle_sigint("stop_all") ])
            /\ last' = Observe("stop_all", "ok")
            /\ UNCHANGED << _tbs, phase, status >>
       ELSE IF Head(Top.ids) \notin KeySet(_tbs)
       THEN /\ phase' = "exited" /\ status' = 1
            /\ last' = Observe("stop", "KeyError")
            /\ UNCHANGED << _tbs, sig >>
       ELSE /\ _tbs' = pop(_tbs, Head(Top.ids))
            /\ sig' = SetTop([ Top EXCEPT !.pc = "terminate", !.ids = Tail(Top.ids),
                                          !.cur = << _tbs[Lookup(_tbs, Head(Top.ids))].tb >> ])
            /\ last' = Observe("pop", "ok")
            /\ UNCHANGED << phase, status >>
    /\ UNCHANGED << _count, run, nsig, todo, db, dirs, named, procs, extern, rmFailed, skipped,
                    saved >>
    /\ UNCHANGED calls

SigTerminate ==
    /\ phase = "shutdown"
    /\ Top.pc = "terminate"
    /\ procs' = terminate(procs, Top.cur[1].proc)
    /\ sig' = SetTop([ Top EXCEPT !.pc = "wait" ])
    /\ UNCHANGED << _count, _tbs, phase, status, run, nsig, todo, db, dirs, named, extern, last,
                    rmFailed, skipped, saved >>
    /\ UNCHANGED calls

\* proc.wait() returns once the child has exited
SigWait ==
    /\ phase = "shutdown"
    /\ Top.pc = "wait"
    /\ procs[Top.cur[1].proc].st = "exited"
    /\ sig' = SetTop([ Top EXCEPT !.pc = "rmtree" ])
    /\ UNCHANGED << _count, _tbs, phase, status, run, nsig, todo, db, dirs, named, procs, extern, last,
                    rmFailed, skipped, saved >>
    /\ UNCHANGED calls

SigRmtree ==
    /\ phase = "shutdown"
    /\ Top.pc = "rmtree"
    /\ \E ok \in BOOLEAN :
         /\ dirs' = rmtree(dirs, Top.cur[1].instance.logdir, ok)
         /\ rmFailed' = IF ok THEN rmFailed ELSE rmFailed \cup { Top.cur[1].instance.logdir }
    /\ sig' = SetTop([ Top EXCEPT !.pc = "loop", !.cur = << >> ])
    /\ last' = Observe("stop", "ok")
    /\ UNCHANGED << _count, _tbs, phase, status, run, nsig, todo, db, named, procs, extern,
                    skipped, saved >>
    /\ UNCHANGED calls

\* sys.exit(0): SystemExit unwinds every frame below
SigExit ==
    /\ phase = "shutdown"
    /\ Top.pc = "exit"
    /\ phase' = "exited"
    /\ status' = 0
    /\ UNCHANGED << _count, _tbs, run, todo, sig, nsig, db, dirs, named, procs, extern, last,
                    rmFailed, skipped, saved >>
    /\ UNCHANGED calls

(***************************************************************************)
(* The children and the host.                                              *)
(***************************************************************************)
\* a child binds its port and listens
ChildBinds(pid) ==
    /\ procs[pid].st = "starting"
    /\ procs[pid].port \notin Occupied
    /\ procs' = [ procs EXCEPT ![pid].st = "listening" ]
    /\ UNCHANGED << _count, _tbs, phase, status, run, todo, sig, nsig, db, dirs, named, extern,
                    last, rmFailed, skipped, saved >>
    /\ UNCHANGED calls

\* a child exits: after SIGTERM, or because its port is taken when it binds
ChildExits(pid) ==
    /\ procs[pid].st # "exited"
    /\ procs[pid].sigterm \/ (procs[pid].st = "starting" /\ procs[pid].port \in Occupied)
    /\ procs' = [ procs EXCEPT ![pid].st = "exited" ]
    /\ UNCHANGED << _count, _tbs, phase, status, run, todo, sig, nsig, db, dirs, named, extern,
                    last, rmFailed, skipped, saved >>
    /\ UNCHANGED calls

\* the operator starts tbman again on the same session file
Restart ==
    /\ phase = "exited"
    /\ run < MaxRuns
    /\ run' = run + 1
    /\ phase' = "start"
    /\ status' = 0
    /\ _count' = 0
    /\ _tbs' = << >>
    /\ todo' = << >>
    /\ sig' = << >>
    /\ nsig' = 0
    /\ skipped' = << >>
    /\ last' = Observe("none", "none")
    /\ UNCHANGED << db, dirs, named, procs, extern, rmFailed, saved >>
    /\ UNCHANGED calls

Next ==
    \/ Construct
    \/ ReplayItem
    \/ ReplayDone
    \/ \E cfg \in Configs : index(cfg)
    \/ \E id \in Idents : route_stop(id)
    \/ cleanup
    \/ Sigint
    \/ SigSave
    \/ SigSnapshot
    \/ SigLoop
    \/ SigTerminate
    \/ SigWait
    \/ SigRmtree
    \/ SigExit
    \/ \E pid \in 1 .. Len(procs) : ChildBinds(pid)
    \/ \E pid \in 1 .. Len(procs) : ChildExits(pid)

(***************************************************************************)
(* _find_port taken by itself: one call, on arguments and on a host of     *)
(* which nothing is assumed but their types.  picks holds the draws of     *)
(* random.randint the loop would make if it ran to its end; occ the ports  *)
(* on which connect_ex returns 0.                                          *)
(***************************************************************************)
\* (variant: the upper end of the draw is off by one)
randint_wide(a, b) == a .. (b + 1)

\* random.randint(a, b): both ends included
randint(a, b) == a .. b

\* the ports the loop of _find_port connected to, in order
RECURSIVE probed(_, _)
probed(picks, occ) ==
    IF picks = << >> THEN << >>
    ELSE IF Head(picks) \notin occ THEN << Head(picks) >>
    ELSE << Head(picks) >> \o probed(Tail(picks), occ)

FindPortArgs ==
    { [ port_lo |-> lo, port_hi |-> hi, max_attempts |-> n, occ |-> occ, picks |-> picks,
        called |-> FALSE, port |-> 0, probes |-> << >> ] :
        lo \in { port_lo, port_lo + 1 }, hi \in (port_lo + 1) .. (port_lo + 1 + NumPorts),
        n \in 1 .. max_attempts, occ \in SUBSET (port_lo .. (port_lo + NumPorts)),
        picks \in UNION { [ 1 .. m -> port_lo .. (port_lo + 1 + NumPorts) ] : m \in 1 .. max_attempts } }

InitFindPort ==
    /\ InitHost
    /\ db = absentFile
    /\ ld = << >>
    /\ thr = { }
    /\ fp \in { a \in FindPortArgs :
                  /\ a.port_lo < a.port_hi
                  /\ a.port_hi <= a.port_lo + NumPorts
                  /\ a.occ \subseteq a.port_lo .. (a.port_hi - 1)
                  /\ Len(a.picks) = a.max_attempts
                  /\ \A i \in 1 .. Len(a.picks) :
                        a.picks[i] \in randint(a.port_lo, a.port_hi - 1) }

FindPortCall ==
    /\ fp # << >>
    /\ ~fp.called
    /\ fp' = [ fp EXCEPT !.called = TRUE,
                         !.port = _find_port(fp.picks, fp.occ),
                         !.probes = probed(fp.picks, fp.occ) ]
    /\ UNCHANGED << host, ld, thr >>

\* one call of _find_port
SpecFindPort == InitFindPort /\ [][FindPortCall]_vars

(***************************************************************************)
(* _make_logdir taken by itself: one call.  A path is the pair of whether  *)
(* it is absolute and of its components; present holds the absolute paths  *)
(* that exist on disk.  The link name f"{path.name}_{count}" is kept as    *)
(* the pair of the name and the count: the count is the digits after the   *)
(* last underscore, so the text determines both.                           *)
(***************************************************************************)
\* os.getcwd()
cwd == << "srv" >>

pathA == [ abs |-> TRUE, parts |-> << "a", "models", "run" >> ]
pathB == [ abs |-> TRUE, parts |-> << "b", "models", "run" >> ]
pathC == [ abs |-> TRUE, parts |-> << "c", "exp" >> ]
pathR == [ abs |-> FALSE, parts |-> << "models", "run" >> ]
SourcePaths == { pathA, pathB, pathC, pathR }

\* Path.name: the final component
name(path) == IF path.parts = << >> THEN "" ELSE path.parts[Len(path.parts)]

\* Path.absolute()
absolute(path) == IF path.abs THEN path ELSE [ abs |-> TRUE, parts |-> cwd \o path.parts ]

\* os.path.lexists of a link name in the new directory
lexists(links, ln) == \E i \in 1 .. Len(links) : links[i].name = ln

\* Path.exists() of a link name: it follows the link, and a link whose target
\* is missing does not exist
exists(links, ln, present) ==
    \E i \in 1 .. Len(links) : links[i].name = ln /\ links[i].target \in present

\* the while loop: the least count whose link name does not exist
first_count(links, n, present) ==
    CHOOSE k \in 0 .. Len(links) :
        /\ ~exists(links, << n, k >>, present)
        /\ \A j \in 0 .. (k - 1) : exists(links, << n, j >>, present)

\* the for loop; symlink_to raises FileExistsError on a name that is there
RECURSIVE make_links(_, _, _)
make_links(paths, links, present) ==
    IF paths = << >> THEN [ links |-> links, raised |-> FALSE ]
    ELSE LET ln == << name(Head(paths)), first_count(links, name(Head(paths)), present) >>
         IN  IF lexists(links, ln)
             THEN [ links |-> links, raised |-> TRUE ]
             ELSE make_links(Tail(paths),
                             Append(links, [ name |-> ln, target |-> absolute(Head(paths)) ]),
                             present)

_make_logdir(paths, present) == make_links(paths, << >>, present)

InitMakeLogdir ==
    /\ InitHost
    /\ db = absentFile
    /\ fp = << >>
    /\ thr = { }
    /\ ld \in { [ paths |-> paths, present |-> present, called |-> FALSE,
                   links |-> << >>, raised |-> FALSE ] :
                 paths \in UNION { [ 1 .. n -> SourcePaths ] : n \in 0 .. MaxPaths },
                 present \in SUBSET { absolute(path) : path \in SourcePaths } }

MakeLogdirCall ==
    /\ ld # << >>
    /\ ~ld.called
    /\ LET r == _make_logdir(ld.paths, ld.present)
       IN  ld' = [ ld EXCEPT !.called = TRUE, !.links = r.links, !.raised = r.raised ]
    /\ UNCHANGED << host, fp, thr >>

\* one call of _make_logdir
SpecMakeLogdir == InitMakeLogdir /\ [][MakeLogdirCall]_vars

(***************************************************************************)
(* The web server with threads.  app.run serves each request on a thread   *)
(* of its own, and the SIGINT handler runs on the main thread while they   *)
(* go on; the code takes no lock.  A POST / is followed through the        *)
(* statements of launch at which another thread can run in between: the    *)
(* call that builds the _Instance (the counter was read for ident), the    *)
(* store into the dict (the counter is read again for the key), the        *)
(* increment, and the save of the route.  A /stop is taken as one step.    *)
(* A frame of thr is a launch that has started its child.                  *)
(***************************************************************************)
\* launch up to the _Instance: mkdtemp, _find_port, Popen, ident = self._count
WorkerLaunch(cfg) ==
    /\ phase \in { "serving", "shutdown" }
    /\ Len(procs) < MaxProcs
    /\ Cardinality(thr) < MaxThreads
    /\ \E d \in FreshNames, picks \in Draws :
         LET port == _find_port(picks, Occupied)
             pid == Len(procs) + 1
         IN  /\ ~no_port(port)
             /\ procs' = Append(procs, [ port |-> port, logdir |-> d, ident |-> _count,
                                         run |-> run, st |-> "starting", sigterm |-> FALSE ])
             /\ dirs' = dirs \cup { d }
             /\ named' = Named(d)
             /\ thr' = thr \cup { [ pc |-> "register", proc |-> pid,
                                     instance |-> [ cfg |-> cfg, ident |-> _count,
                                                    logdir |-> d, port |-> port ] ] }
    /\ UNCHANGED << _count, _tbs, phase, status, run, todo, sig, nsig, db, extern, last,
                    rmFailed, skipped, saved, fp, ld >>

\* self._tbs[self._count] = _TensorBoard(instance=instance, proc=proc)
WorkerRegister(t) ==
    /\ phase \in { "serving", "shutdown" }
    /\ t.pc = "register"
    /\ _tbs' = DictSet(_tbs, _count, [ instance |-> t.instance, proc |-> t.proc ])
    /\ thr' = (thr \ { t }) \cup { [ t EXCEPT !.pc = "increment" ] }
    /\ UNCHANGED << _count, phase, status, run, todo, sig, nsig, db, dirs, named, procs, extern,
                    last, rmFailed, skipped, saved, fp, ld >>

\* self._count += 1
WorkerIncrement(t) ==
    /\ phase \in { "serving", "shutdown" }
    /\ t.pc = "increment"
    /\ _count' = next_count(_count)
    /\ thr' = (thr \ { t }) \cup { [ t EXCEPT !.pc = "save" ] }
    /\ UNCHANGED << _tbs, phase, status, run, todo, sig, nsig, db, dirs, named, procs, extern,
                    last, rmFailed, skipped, saved, fp, ld >>

\* index: manager.save(), and the request is done
WorkerSave(t) ==
    /\ phase \in { "serving", "shutdown" }
    /\ t.pc = "save"
    /\ db' = save(_tbs)
    /\ saved' = [ run |-> run, live |-> Cfgs(_tbs) ]
    /\ thr' = thr \ { t }
    /\ UNCHANGED << _count, _tbs, phase, status, run, todo, sig, nsig, dirs, named, procs,
                    extern, last, rmFailed, skipped, fp, ld >>

\* GET /stop/<id> on a thread, the handler running or not
WorkerStop(id) ==
    /\ phase \in { "serving", "shutdown" }
    /\ id \in KeySet(_tbs)
    /\ \E fail \in SUBSET { _tbs[Lookup(_tbs, id)].tb.instance.logdir } :
         LET r == stop(Fields, id, fail)
         IN  /\ _tbs' = r.tbs /\ procs' = r.procs /\ dirs' = r.dirs /\ rmFailed' = r.rmFailed
    /\ UNCHANGED << _count, phase, status, run, todo, sig, nsig, db, named, extern, last,
                    skipped, saved, fp, ld, thr >>

InitThreads ==
    /\ Init
    /\ db = absentFile

NextThreads ==
    \/ Construct
    \/ \E cfg \in Configs : WorkerLaunch(cfg)
    \/ \E t \in thr : WorkerRegister(t)
    \/ \E t \in thr : WorkerIncrement(t)
    \/ \E t \in thr : WorkerSave(t)
    \/ \E id \in Idents : WorkerStop(id)
    \/ Sigint
    \/ SigSave
    \/ SigSnapshot
    \/ SigLoop
    \/ SigTerminate
    \/ SigWait
    \/ SigRmtree
    \/ SigExit
    \/ \E pid \in 1 .. Len(procs) : ChildBinds(pid)
    \/ \E pid \in 1 .. Len(procs) : ChildExits(pid)

\* one run of tbman on an empty session, its requests on threads
SpecThreads == InitThreads /\ [][NextThreads]_vars

\* one run of tbman, with one SIGINT
Spec == Init /\ [][Next]_vars

\* the same, with tbman started again after it has exited
SpecRestart == Init /\ [][Next \/ Restart]_vars

\* the same, with SIGINT delivered again during the shutdown
SpecReentry == Init /\ [][Next \/ SigintAgain]_vars

(***************************************************************************)
(* The properties.                                                         *)
(***************************************************************************)
\* the children this run spawned
RunPids == { p \in 1 .. Len(procs) : procs[p].run = run }
LogdirOf(i) == _tbs[i].tb.instance.logdir
FileOf(cfgs) == arrayFile([ i \in 1 .. Len(cfgs) |-> _asdict(cfgs[i]) ])

\* C1: any two distinct live Instances of the registry have different ports.
C1_DistinctPorts ==
    \A i, j \in 1 .. Len(_tbs) :
        i # j => _tbs[i].tb.instance.port # _tbs[j].tb.instance.port

\* C2: within a run the counter starts at zero and counts the successful
\* launches only (a failed launch leaves it alone); the identifiers issued are
\* 0, 1, 2, ... in the order of the launches, so each is greater than every one
\* issued before and none is issued twice, stopped Instances included; every
\* registry entry sits under its own identifier.
C2_Identifiers ==
    /\ _count = Cardinality(RunPids)
    /\ \A p \in RunPids : procs[p].ident = Cardinality({ q \in RunPids : q < p })
    /\ \A p, q \in RunPids : p < q => procs[p].ident < procs[q].ident
    /\ \A i \in 1 .. Len(_tbs) :
          /\ _tbs[i].key = _tbs[i].tb.instance.ident
          /\ _tbs[i].tb.proc \in RunPids
          /\ procs[_tbs[i].tb.proc].ident = _tbs[i].key

\* C2, the case: identifier 0 was issued and its Instance stopped, a launch
\* failed, and the next launch got identifier 1.
C2_Witness ==
    /\ _count = 2
    /\ KeySet(_tbs) = { 1 }
    /\ \E d \in dirs : \A p \in 1 .. Len(procs) : procs[p].logdir # d

\* C3: stop on an identifier that is not in the registry ends in an explicit
\* InstanceNotFound outcome, and the process keeps running.
C3_StopUnknown ==
    (last.op = "stop" /\ last.result # "ok")
        => (last.result = "InstanceNotFound" /\ phase # "exited")

\* what stop_all leaves of the registry tbs0 it was called on; swallowed says
\* whether a directory whose deletion failed may remain
StopAllDone(tbs0, ts, ps, ds, rf, swallowed) ==
    /\ ts = << >>
    /\ \A i \in 1 .. Len(tbs0) :
          /\ ps[tbs0[i].tb.proc].st = "exited"
          /\ \/ tbs0[i].tb.instance.logdir \notin ds
             \/ swallowed /\ tbs0[i].tb.instance.logdir \in rf

\* stop_all has returned in the SIGINT handler
StopAllReturned == sig # << >> /\ last = Observe("stop_all", "ok")

\* C4 (amended): after stop_all returns, by /cleanup or in the SIGINT handler,
\* the registry is empty and every Instance that was live at the call has a
\* child that has exited and a log directory that is gone, unless its deletion
\* failed and the failure was swallowed.
C4_StopAll ==
    /\ [][cleanup => StopAllDone(_tbs, _tbs', procs', dirs', rmFailed', TRUE)]_vars
    /\ [](StopAllReturned => StopAllDone(Top.snap, _tbs, procs, dirs, rmFailed, TRUE))

\* C4 as claimed: ... and every such log directory is gone.
C4_StopAllOriginal ==
    /\ [][cleanup => StopAllDone(_tbs, _tbs', procs', dirs', rmFailed', FALSE)]_vars
    /\ [](StopAllReturned => StopAllDone(Top.snap, _tbs, procs, dirs, rmFailed, FALSE))

\* C4, the case: stop_all has returned after stopping two live Instances.
C4_Witness == StopAllReturned /\ Len(Top.snap) = 2 /\ _tbs = << >>

\* a fresh _Manager has just been constructed on a file that a save() of an
\* earlier run wrote
Reloaded ==
    /\ phase = "serving"
    /\ last = Observe("load", "done")
    /\ saved.run >= 1
    /\ saved.run < run

C6_PortExhausted ==
    [][(dirs' # dirs /\ last'.op = "launch" /\ last'.result = "no_port")
          => (_tbs' = _tbs /\ _count' = _count /\ procs' = procs /\ phase' = phase)]_vars

\* C6, the case: a launch found no port while an Instance was live.
C6_Witness == last = Observe("launch", "no_port") /\ Len(_tbs) >= 1

\* C7 (amended): every live Instance's log directory exists, no two Instances
\* live at the same time have the same one, and when a stop has completed the
\* directory of the stopped Instance is gone unless its deletion failed and the
\* failure was swallowed.
C7_Logdirs ==
    /\ [](\A i \in 1 .. Len(_tbs) : LogdirOf(i) \in dirs)
    /\ [](\A i, j \in 1 .. Len(_tbs) : i # j => LogdirOf(i) # LogdirOf(j))
    /\ [][\A i \in 1 .. Len(_tbs) :
            (last' = Observe("stop", "ok") /\ sig = << >> /\ _tbs[i].key \notin KeySet(_tbs'))
                => (LogdirOf(i) \notin dirs' \/ LogdirOf(i) \in rmFailed')]_vars
    /\ [][(sig # << >> /\ Top.pc = "rmtree" /\ last' = Observe("stop", "ok"))
            => \/ Top.cur[1].instance.logdir \notin dirs'
               \/ Top.cur[1].instance.logdir \in rmFailed']_vars

\* C7 as claimed: no two Instances, live at the same time or not, ever have
\* the same log directory, and the directory of a stopped Instance is gone.
C7_LogdirsOriginal ==
    /\ [](\A i \in 1 .. Len(_tbs) : LogdirOf(i) \in dirs)
    /\ [](\A p, q \in 1 .. Len(procs) : p # q => procs[p].logdir # procs[q].logdir)
    /\ [][\A i \in 1 .. Len(_tbs) :
            (last' = Observe("stop", "ok") /\ sig = << >> /\ _tbs[i].key \notin KeySet(_tbs'))
                => LogdirOf(i) \notin dirs']_vars

\* C7, the case: of two Instances one was stopped and its directory deleted,
\* the other is live and has its directory.
C7_Witness ==
    /\ last = Observe("stop", "ok")
    /\ Len(_tbs) = 1
    /\ \E p \in 1 .. Len(procs) : procs[p].st = "exited" /\ procs[p].logdir \notin dirs

\* C8: a run of the SIGINT handler saves before it stops anything: from its
\* save on, the file holds the configs of the Instances that were live when
\* its signal arrived; stop_all runs after the save, the registry is empty
\* when the handler reaches sys.exit, and the process exits with status 0.
C8_Shutdown ==
    sig # << >> =>
        /\ Top.saved => db = FileOf(Top.live)
        /\ Top.pc \in { "stop_all", "loop", "terminate", "wait", "rmtree", "exit" } => Top.saved
        /\ Top.pc = "exit" => _tbs = << >>
        /\ phase = "exited" => (status = 0 /\ Top.pc = "exit")

\* C8, the case: the process has exited through the handler and the file
\* holds the configs of two Instances.
C8_Witness ==
    /\ phase = "exited"
    /\ sig # << >>
    /\ Len(Top.live) = 2
    /\ db = FileOf(Top.live)

\* C9: the shutdown sequence runs once: after the first handler's save, the
\* file stays the one written for the first SIGINT, whatever arrives later.
C9_ShutdownOnce ==
    (sig # << >> /\ (Top.firstSaved \/ (nsig = 1 /\ Top.saved)))
        => db = FileOf(Top.first)

\* C10: a startup that ends on a malformed file has launched no Instance and
\* leaves no child running.
C10_FatalStartup ==
    (phase = "exited" /\ last.op = "load" /\ last.result \in { "JSONDecodeError", "TypeError" })
        => (status # 0 /\ RunPids = { } /\ _tbs = << >>)

\* C11: _find_port makes at most max_attempts probes, each of a port of
\* [port_lo, port_hi); it returns the first probed port on which the connect
\* failed, and -1 exactly when all max_attempts probes met a listening port.
\* With port_hi = port_lo + 1 it returns -1 when that port is taken and port_lo
\* when it is free.
C11_FindPort ==
    (fp # << >> /\ fp.called) =>
        /\ Len(fp.probes) <= fp.max_attempts
        /\ \A i \in 1 .. Len(fp.probes) : fp.port_lo <= fp.probes[i] /\ fp.probes[i] < fp.port_hi
        /\ fp.probes = SubSeq(fp.picks, 1, Len(fp.probes))
        /\ \A i \in 1 .. (Len(fp.probes) - 1) : fp.probes[i] \in fp.occ
        /\ (fp.port = -1) <=> (/\ Len(fp.probes) = fp.max_attempts
                                /\ \A i \in 1 .. Len(fp.probes) : fp.probes[i] \in fp.occ)
        /\ (fp.port # -1) => (fp.port = fp.probes[Len(fp.probes)] /\ fp.port \notin fp.occ)
        /\ (fp.port_hi = fp.port_lo + 1 /\ fp.port_lo \in fp.occ) => fp.port = -1
        /\ (fp.port_hi = fp.port_lo + 1 /\ fp.port_lo \notin fp.occ) => fp.port = fp.port_lo

\* C11, the case: the first probe met a listening port and the second one a
\* free port, which was returned.
C11_Witness ==
    /\ fp # << >>
    /\ fp.called
    /\ Len(fp.probes) = 2
    /\ fp.probes[1] \in fp.occ
    /\ fp.port = fp.probes[2]

\* C12: for every sequence of N source paths, with repeated final components
\* and with missing targets, _make_logdir completes and leaves N links with
\* pairwise distinct names; the i-th link points to the absolute form of the
\* i-th path and is named n_k, n being the path's final component and k the
\* number of earlier paths with that final component.
C12_MakeLogdir ==
    (ld # << >> /\ ld.called) =>
        /\ ~ld.raised
        /\ Len(ld.links) = Len(ld.paths)
        /\ \A i, j \in 1 .. Len(ld.links) : i # j => ld.links[i].name # ld.links[j].name
        /\ \A i \in 1 .. Len(ld.links) :
              /\ ld.links[i].target = absolute(ld.paths[i])
              /\ ld.links[i].name =
                    << name(ld.paths[i]),
                       Cardinality({ j \in 1 .. (i - 1) : name(ld.paths[j]) = name(ld.paths[i]) }) >>

\* C13: a launch whose Popen could not start the binary leaves the registry,
\* the counter and the children as they were, and its exception reaches the
\* caller: the route is left before its save, the startup replay ends the
\* process with a non-zero status.  Every entry of the registry has a child
\* that was started.
C13_SpawnFailure ==
    /\ [][(dirs' # dirs /\ last'.op = "launch" /\ last'.result = "spawn_error")
            => /\ _tbs' = _tbs /\ _count' = _count /\ procs' = procs
               /\ (phase = "serving" => (db' = db /\ saved' = saved /\ phase' = "serving"))
               /\ (phase = "replay" => (phase' = "exited" /\ status' # 0))]_vars
    /\ [](\A i \in 1 .. Len(_tbs) :
            /\ _tbs[i].tb.proc \in 1 .. Len(procs)
            /\ procs[_tbs[i].tb.proc].logdir = _tbs[i].tb.instance.logdir
            /\ procs[_tbs[i].tb.proc].port = _tbs[i].tb.instance.port)

\* C13, the case: with one Instance live, a request's launch could not start
\* the binary.
C13_Witness ==
    /\ phase = "serving"
    /\ last = Observe("launch", "spawn_error")
    /\ Len(_tbs) = 1
    /\ Cardinality(dirs) = 2

\* s is t with some of its elements left out
RECURSIVE IsSubSeq(_, _)
IsSubSeq(s, t) ==
    IF s = << >> THEN TRUE
    ELSE IF t = << >> THEN FALSE
    ELSE IF Head(s) = Head(t) THEN IsSubSeq(Tail(s), Tail(t))
    ELSE IsSubSeq(s, Tail(t))

\* the configs a session file lists
Listed(file) == [ i \in 1 .. Len(file.data) |-> _Config(file.data[i]) ]

\* C14: in the startup replay a launch that fails, for want of a port or for
\* any other reason, does not end the process; once the replay is over every
\* config of the file was attempted once, and the registry holds the launched
\* ones in file order under the identifiers 0, 1, 2, ...
C14_Replay ==
    /\ (last.op = "launch" /\ last.result # "ok") => phase # "exited"
    /\ (phase = "serving" /\ last = Observe("load", "done")) =>
          /\ Len(_tbs) + Len(skipped) = Len(db.data)
          /\ IsSubSeq(Cfgs(_tbs), Listed(db))
          /\ IsSubSeq(skipped, Listed(db))
          /\ keys(_tbs) = [ i \in 1 .. Len(_tbs) |-> i - 1 ]

\* the file that lists the paths and the title, and nothing else, of each
\* entry of a registry, in the order of the entries
SavedFrom(tbs) ==
    [ kind |-> "array",
      data |-> [ i \in 1 .. Len(tbs) |-> [ paths |-> tbs[i].tb.instance.cfg[1],
                                           title |-> tbs[i].tb.instance.cfg[2] ] ] ]

\* C15: a save(), in the SIGINT handler or at the end of POST /, leaves as the
\* whole file the paths and title of every live Instance, one entry each in
\* the order of the registry; the save of the handler (a step of its own)
\* leaves the registry and the counter as they were.
C15_Save ==
    /\ [][(sig # << >> /\ Top.pc = "save" /\ sig' # sig /\ nsig' = nsig)
            => (db' = SavedFrom(_tbs) /\ _tbs' = _tbs /\ _count' = _count)]_vars
    /\ [][(/\ phase = "serving" /\ dirs' # dirs
            /\ last'.op = "launch" /\ last'.result \in { "ok", "no_port" })
            => db' = SavedFrom(_tbs')]_vars

\* C15, the case: the handler has saved two live Instances of different
\* configs over a file that listed one.
C15_Witness ==
    /\ last = Observe("save", "ok")
    /\ Len(_tbs) = 2
    /\ _tbs[1].tb.instance.cfg # _tbs[2].tb.instance.cfg
    /\ db = SavedFrom(_tbs)

\* the _TensorBoard the stop in progress in the SIGINT handler has popped
Cur == Top.cur[1]

\* C16: a stop of a live identifier goes in this order: the entry leaves the
\* registry (nothing else changes yet), then SIGTERM is requested, then the
\* call waits for the child to have exited, and only then the directory is
\* deleted; a deletion that fails is swallowed, the stop returns normally and
\* the registry is left without that entry and otherwise as it was.  The
\* stops of the SIGINT handler show the order step by step, the /stop route
\* the call as a whole.
C16_StopOrder ==
    /\ [][(sig # << >> /\ Top.pc = "loop" /\ sig' # << >> /\ Top'.pc = "terminate")
            => /\ _tbs' = SelectSeq(_tbs, LAMBDA e : e.key # Head(Top.ids))
               /\ Len(_tbs') = Len(_tbs) - 1
               /\ procs' = procs /\ dirs' = dirs]_vars
    /\ []((sig # << >> /\ Top.pc = "terminate")
            => /\ \A i \in 1 .. Len(_tbs) : _tbs[i].tb # Cur
               /\ ~procs[Cur.proc].sigterm
               /\ Cur.instance.logdir \in dirs)
    /\ []((sig # << >> /\ Top.pc = "wait")
            => /\ \A i \in 1 .. Len(_tbs) : _tbs[i].tb # Cur
               /\ procs[Cur.proc].sigterm \/ procs[Cur.proc].st = "exited"
               /\ Cur.instance.logdir \in dirs)
    /\ []((sig # << >> /\ Top.pc = "rmtree")
            => /\ procs[Cur.proc].st = "exited"
               /\ Cur.instance.logdir \in dirs)
    /\ [][(sig # << >> /\ Top.pc = "rmtree" /\ sig' # sig)
            => /\ last' = Observe("stop", "ok")
               /\ _tbs' = _tbs /\ phase' = phase /\ procs' = procs
               /\ Cur.instance.logdir \notin dirs' \/ Cur.instance.logdir \in rmFailed']_vars
    /\ [][(phase = "serving" /\ _tbs' # _tbs /\ last' = Observe("stop", "ok"))
            => \E i \in 1 .. Len(_tbs) :
                 /\ _tbs' = SelectSeq(_tbs, LAMBDA e : e.key # _tbs[i].key)
                 /\ Len(_tbs') = Len(_tbs) - 1
                 /\ procs'[_tbs[i].tb.proc].st = "exited"
                 /\ LogdirOf(i) \notin dirs' \/ LogdirOf(i) \in rmFailed'
                 /\ phase' = "serving"]_vars

\* C16, the case: a stop of the handler has returned after a deletion that
\* failed: the child has exited, the directory is still there, the entry is
\* gone and another Instance is still registered.
C16_Witness ==
    /\ sig # << >>
    /\ Top.pc = "loop"
    /\ last = Observe("stop", "ok")
    /\ Len(_tbs) = 1
    /\ \E p \in 1 .. Len(procs) :
          /\ procs[p].st = "exited"
          /\ procs[p].logdir \in dirs \cap rmFailed
          /\ p # _tbs[1].tb.proc

\* the registry entries that hold the child pid
OwnersOf(pid) == { i \in 1 .. Len(_tbs) : _tbs[i].tb.proc = pid }

\* the stop in progress in the SIGINT handler has popped pid's entry and is
\* about to terminate the child
BeingStopped(pid) == sig # << >> /\ Top.pc = "terminate" /\ Cur.proc = pid

\* C17: no two entries of the registry hold the same child; a child is sent
\* SIGTERM only by the stop that took its entry out; and every child of this
\* run that has not exited and was not sent SIGTERM is held by exactly one
\* entry of the registry of a _Manager that is still there (the stop that is
\* about to terminate it aside).
C17_OneToOne ==
    /\ \A i, j \in 1 .. Len(_tbs) : i # j => _tbs[i].tb.proc # _tbs[j].tb.proc
    /\ \A pid \in RunPids : procs[pid].sigterm => OwnersOf(pid) = { }
    /\ \A pid \in RunPids :
          (procs[pid].st # "exited" /\ ~procs[pid].sigterm /\ ~BeingStopped(pid))
              => (phase # "exited" /\ Cardinality(OwnersOf(pid)) = 1)

\* the launch calls and the stop_all in progress
InProgress ==
    Cardinality({ t \in thr : t.pc \in { "register", "increment" } })
        + (IF /\ sig # << >> /\ phase = "shutdown"
              /\ Top.pc \in { "loop", "terminate", "wait", "rmtree" } THEN 1 ELSE 0)

\* C18: with requests on threads and the handler beside them, at most one of
\* launch, stop, stop_all and save is in progress at any time; no two launches
\* of a run read the same counter value, no two _Instances are stored under
\* one key, and the stop_all of the handler never stops an identifier that
\* is no longer in the registry.
C18_Serialized ==
    /\ InProgress <= 1
    /\ \A p, q \in RunPids : p # q => procs[p].ident # procs[q].ident
    /\ \A i \in 1 .. Len(_tbs) : _tbs[i].key = _tbs[i].tb.instance.ident
    /\ last # Observe("stop", "KeyError")

\* C19: a request that changes the registry (a launch by POST /, a stop by
\* /stop/<id>, a stop of all by /cleanup) leaves a session file that lists
\* exactly the configs of the Instances live after it, so that a restart
\* after a sudden death of the process brings back those and no other.
C19_Persisted ==
    [][(phase = "serving" /\ _tbs' # _tbs) => Listed(db') = Cfgs(_tbs')]_vars

\* C20: once a launch has returned or raised, every directory the _Manager
\* made that is still on disk (those aside whose deletion by a stop failed)
\* is the log directory of a live Instance.
C20_NoOrphan ==
    last.op = "launch" => \A d \in dirs \ rmFailed : d \in LiveDirs

====
